---- MODULE Spec2Model ----
(***************************************************************************)
(* Reaction sensitivity analysis of biomass                                *)
(* (biomass/analysis/reaction/sensitivity.py, class ReactionSensitivity).  *)
(*                                                                         *)
(* Python indices are kept 0-based.  A numpy array is a function from      *)
(* index tuples to floats; a float is a record so that NaN, exact          *)
(* rationals and the symbolic logarithmic quotient share one type.         *)
(***************************************************************************)
EXTENDS Integers, Sequences, FiniteSets, TLC

----------------------------------------------------------------------------
(* Bounds of the model.                                                    *)

NParamSets == 2
NReactions == 2
NObs == 2
NCond == 2
NProcs == 2
MaxCalls == 2
NRows == 2
NCols == 2

----------------------------------------------------------------------------
(* Floating point values.                                                  *)

RECURSIVE GCD(_, _)
GCD(a, b) == IF b = 0 THEN a ELSE GCD(b, a % b)

Abs(n) == IF n < 0 THEN -n ELSE n

NaN == [kind |-> "nan", num |-> 0, den |-> 1]

\* the exact quotient n / d, d # 0, in lowest terms with a positive denominator
Rat(n, d) ==
    LET g == GCD(Abs(n), Abs(d))
        s == IF d < 0 THEN -1 ELSE 1
    IN  [kind |-> "num", num |-> (s * n) \div g, den |-> (s * d) \div g]

Num(n) == Rat(n, 1)

Zero == Num(0)

IsNaN(v) == v.kind = "nan"

\* a / b as numpy divides: NaN propagates, x / 0 is not finite
FDiv(a, b) ==
    IF a.kind # "num" \/ b.kind # "num" \/ b.num = 0 THEN NaN
    ELSE Rat(a.num * b.den, a.den * b.num)

FAdd(a, b) ==
    IF a.kind # "num" \/ b.kind # "num" THEN NaN
    ELSE Rat(a.num * b.den + b.num * a.den, a.den * b.den)

FSub(a, b) ==
    IF a.kind # "num" \/ b.kind # "num" THEN NaN
    ELSE Rat(a.num * b.den - b.num * a.den, a.den * b.den)

FMul(a, b) ==
    IF a.kind # "num" \/ b.kind # "num" THEN NaN
    ELSE Rat(a.num * b.num, a.den * b.den)

FAbs(a) == IF a.kind = "num" THEN Rat(Abs(a.num), a.den) ELSE a

\* a < b for two finite values
FLess(a, b) == a.num * b.den < b.num * a.den

\* Python's a[idx] on an axis of length n: a negative idx counts from the end
PyIndex(n, idx) == IF idx < 0 THEN n + idx ELSE idx

----------------------------------------------------------------------------
(* The model under analysis: what the constructor reads from it.           *)

\* model.observables
obs == [k \in 1..NObs |-> k]

\* model.NumericalSimulation().conditions
conditions == [l \in 1..NCond |-> l]

\* get_executable(model_path): the numbers of the accepted parameter sets
n_file == [n \in 1..NParamSets |-> n]

\* model.ReactionNetwork().group(): the reactions of each biological process
biological_processes ==
    IF NReactions = 0 THEN << <<>> >>
    ELSE << <<1>>, [n \in 1..(NReactions - 1) |-> n + 1] >>

RECURSIVE Concat(_)
Concat(ss) == IF ss = <<>> THEN <<>> ELSE Head(ss) \o Concat(Tail(ss))

\* analyze: reaction_indices = np.sum(biological_processes, axis=0)
reaction_indices == Concat(biological_processes)

\* the perturbation of a reaction rate: 1.01
rate == Rat(101, 100)

Metrics == {"amplitude", "duration", "integral"}

MetricInputs == Metrics \cup {"slope"}

Styles == {"barplot", "heatmap"}

StyleInputs == Styles \cup {"lineplot"}

----------------------------------------------------------------------------
(* Collaborators of the sweep that live in other modules of biomass.       *)

RECURSIVE SumSet(_)
SumSet(S) == IF S = {} THEN 0 ELSE LET e == CHOOSE e \in S : TRUE IN e + SumSet(S \ {e})

\* ode.py, diffeq lines 12-16: every flux v[i] with i a key of the perturbation is
\* multiplied by its factor; an empty perturbation changes none
Diffeq(v, perturbation) ==
    [idx \in DOMAIN v |->
        IF idx \in DOMAIN perturbation THEN FMul(v[idx], perturbation[idx]) ELSE v[idx]]

\* the fluxes of the reactions before any perturbation
Flux == [idx \in 1..NReactions |-> Num(idx)]

\* the time course of observable k under condition l that
\* NumericalSimulation.simulate(x, y0, perturbation) leaves in sim.simulations
\* when it succeeds: a function of its arguments alone, through the fluxes
SimTrace(x, perturbation, k, l) ==
    LET v == Diffeq(Flux, perturbation)
        hundredfold == {<<idx, FMul(Num(100), v[idx]).num>> : idx \in DOMAIN v}
        peak == SumSet({h[2] : h \in hundredfold}) + 10000 * x + 1000 * (3 * k + l)
    IN  <<1, peak, 0>>

SimResult(x, perturbation) ==
    [kl \in (0..(Len(obs) - 1)) \X (0..(Len(conditions) - 1)) |->
        SimTrace(x, perturbation, kl[1], kl[2])]

SeqMax(tr) == CHOOSE m \in {tr[n] : n \in DOMAIN tr} : \A n \in DOMAIN tr : tr[n] <= m

ArgMax(tr) == CHOOSE n \in DOMAIN tr : tr[n] = SeqMax(tr) /\ \A q \in 1..(n - 1) : tr[q] # SeqMax(tr)

\* the time it takes to decline below 10% of the maximum
get_duration(tr) ==
    LET below == {n \in ArgMax(tr)..Len(tr) : 10 * tr[n] < SeqMax(tr)}
    IN  IF SeqMax(tr) = 0 \/ below = {} THEN NaN
        ELSE Num((CHOOSE n \in below : \A q \in below : n <= q) - 1)

\* twice the trapezoidal integral of a time course sampled at unit steps
RECURSIVE Trapezoid2(_)
Trapezoid2(tr) ==
    IF Len(tr) < 2 THEN 0 ELSE tr[1] + tr[2] + Trapezoid2(Tail(tr))

\* get_signaling_metric(metric, temporal_dynamics) for a known metric
get_signaling_metric(m, tr) ==
    CASE m = "amplitude" -> Num(SeqMax(tr))
      [] m = "duration"  -> get_duration(tr)
      [] m = "integral"  -> Rat(Trapezoid2(tr), 2)

\* ln(perturbed / baseline) / ln(rate), kept symbolic unless it is 0; NaN where
\* the logarithm is not defined
LogQuotient(perturbed, baseline, r) ==
    LET q == FDiv(perturbed, baseline)
    IN  IF q = Num(1) THEN Zero
        ELSE IF q.num <= 0 THEN NaN
        ELSE [kind |-> "lnratio", num |-> q.num, den |-> q.den]

\* dlnyi_dlnxj(signaling_metric, n_file, reaction_indices, obs, conditions, rate)
dlnyi_dlnxj(sm, nf, ri, ob, co, r) ==
    [c \in (0..(Len(nf) - 1)) \X (0..(Len(ri) - 1)) \X (0..(Len(ob) - 1)) \X (0..(Len(co) - 1)) |->
        LET perturbed == sm[c]
            baseline == sm[<<c[1], Len(ri), c[3], c[4]>>]
        IN  IF IsNaN(perturbed) \/ IsNaN(baseline) THEN NaN
            ELSE IF baseline = Zero THEN (IF perturbed = Zero THEN Zero ELSE NaN)
            ELSE LogQuotient(perturbed, baseline, r)]

----------------------------------------------------------------------------
(* State.                                                                  *)

VARIABLES
    pc,                         \* position of the analyze call
    metric,                     \* analyze(metric, style)
    style,
    cmap,                       \* len(viz.sensitivity_options['cmap'])
    i,                          \* position in n_file
    j,                          \* position in reaction_indices
    perturbation,               \* the local dict of the sweep
    simulations,                \* sim.simulations, <<>> before the first success
    signaling_metric,           \* the local array of the sweep
    sensitivity_coefficients,   \* the array _load_sc returns, <<>> before
    files,                      \* per metric: the file .../reaction/<metric>/sc.npy
    raised,                     \* the exception that ended the call, "" if none
    stdout,                     \* what the sweep wrote: <<completed, total>> pairs
    calls,                      \* each simulate call so far: its arguments and outcome
    \* callers of _load_sc, one per process
    cpc,                        \* position of each caller
    cmetric,                    \* the metric of its call
    csc,                        \* its local sensitivity_coefficients, <<>> before
    cret,                       \* what its last call returned, <<>> if nothing
    cerr,                       \* the exception its last call raised, "" if none
    ncalls,                     \* the calls it has made
    computed,                   \* whether its call ran _calc_sensitivity_coefficients
    before,                     \* what the last call of the metric that returned, returned
    returned,                   \* per metric: the same, as calls return
    computes,                   \* per metric: the runs of _calc_sensitivity_coefficients
    seen,                       \* the state of the file its np.load read
    \* a call of _remove_nan
    rn_pc,
    sensitivity_matrix,         \* the array passed in, assigned to row by row
    normalize,
    nan_idx,
    rn_i,                       \* the row the loop is at
    rn_ret,                     \* the array returned, <<>> before
    rn_arg,                     \* the array as it was passed in
    \* the statistics of one observable in _barplot_sensitivity
    bar_pc,
    sensitivity_array,          \* sensitivity_coefficients[:, :, k, :], rebound at line 178
    bar_arg,                    \* the slice as it was taken
    average,                    \* <<>> before
    stdev,                      \* <<>> before
    \* the loops of _heatmap_sensitivity
    heat_pc,
    heat_sc,                    \* the caller's array, but for the slice out as a view
    heat_k,
    heat_l,
    heat_arg,                   \* the caller's array as it was passed in
    heat_drawn                  \* per slice gone through, whether a clustermap was drawn

analyzeVars == <<pc, metric, style, cmap, i, j, perturbation, simulations,
                 signaling_metric, sensitivity_coefficients, raised, stdout, calls>>

cacheVars == <<cpc, cmetric, csc, cret, cerr, ncalls, computed, before, returned,
               computes, seen>>

cleanVars == <<rn_pc, sensitivity_matrix, normalize, nan_idx, rn_i, rn_ret, rn_arg>>

barVars == <<bar_pc, sensitivity_array, bar_arg, average, stdev>>

heatVars == <<heat_pc, heat_sc, heat_k, heat_l, heat_arg, heat_drawn>>

notAnalyze == <<cacheVars, cleanVars, barVars, heatVars>>

notCache == <<analyzeVars, cleanVars, barVars, heatVars>>

notClean == <<analyzeVars, cacheVars, barVars, heatVars, files>>

notBar == <<analyzeVars, cacheVars, cleanVars, heatVars, files>>

vars == <<analyzeVars, cacheVars, cleanVars, barVars, heatVars, files>>

\* the file np.save(file, arr) writes: '.npy' is appended to a name without it
NpSavePath(file) == IF file[2] = "sc.npy" THEN file ELSE <<file[1], "sc.npy">>

\* the name isfile would look for had the extension been left out as in the save
ScNoExt(m) == <<m, "sc">>

\* model_path + '/sensitivity_coefficients/reaction/{}/sc.npy'.format(metric),
\* the file os.path.isfile looks for and np.load reads
ScNpy(m) == <<m, "sc.npy">>

\* model_path + '/sensitivity_coefficients/reaction/{}/sc'.format(metric),
\* the name passed to np.save
ScArg(m) == <<m, "sc">>

Paths == MetricInputs \X {"sc", "sc.npy"}

\* a file of the cache directory
Absent == [state |-> "absent", data |-> <<>>]

Complete(a) == [state |-> "complete", data |-> a]

\* a file a writer has opened and not yet closed
Partial == [state |-> "partial", data |-> <<>>]

----------------------------------------------------------------------------
(* _calc_sensitivity_coefficients                                          *)

\* the array as np.zeros would make it
FullZeros(nf, ri, ob, co) ==
    [c \in (0..(Len(nf) - 1)) \X (0..Len(ri)) \X (0..(Len(ob) - 1)) \X (0..(Len(co) - 1)) |-> Zero]

\* np.full((len(n_file), len(reaction_indices)+1, len(obs), len(conditions)), np.nan)
FullNaN(nf, ri, ob, co) ==
    [c \in (0..(Len(nf) - 1)) \X (0..Len(ri)) \X (0..(Len(ob) - 1)) \X (0..(Len(co) - 1)) |-> NaN]

\* load_param(model_path, nth_paramset, sp.update): (x, y0), named by the set's number
load_param(nth_paramset) == nth_paramset

\* the dict as it would be were it made once, before the loops, and only
\* perturbation[rxn_idx] = rate done per cell
BuildPerturbationReused(previous, ri, rxn_idx) ==
    IF DOMAIN previous = {}
    THEN [idx \in {ri[n] : n \in DOMAIN ri} |-> IF idx = rxn_idx THEN rate ELSE Num(1)]
    ELSE [previous EXCEPT ![rxn_idx] = rate]

\* lines 55-58: the dict starts empty, every index gets 1, rxn_idx gets rate
BuildPerturbation(previous, ri, rxn_idx) ==
    [idx \in {ri[n] : n \in DOMAIN ri} |-> IF idx = rxn_idx THEN rate ELSE Num(1)]

\* signaling_metric[i, slot, k, l] = get_signaling_metric(metric, sim.simulations[k, :, l])
\* for every k and l; slot may be negative
StoreMetrics(sm, ii, slot, m, sims, ri) ==
    [c \in DOMAIN sm |->
        IF c[1] = ii /\ c[2] = PyIndex(Len(ri) + 1, slot)
        THEN get_signaling_metric(m, sims[<<c[3], c[4]>>])
        ELSE sm[c]]

\* the last slot of an axis of length len(reaction_indices)
BaselineSlotOfShorterAxis == Len(reaction_indices) - 1

\* the slot the unperturbed run is stored in: signaling_metric[i, -1, k, l]
BaselineSlot == -1

\* the first get_signaling_metric call of a cell raises for an unknown metric
MetricRaises(m) == m \notin Metrics /\ Len(obs) > 0 /\ Len(conditions) > 0

\* where the loops stand after cell (ii, jj) when jj perturbed cells of ii are done
AfterPerturbed(jj) == IF jj < Len(reaction_indices) THEN "perturbed" ELSE "baseline"

AfterBaseline(ii) ==
    IF ii < Len(n_file) THEN AfterPerturbed(0) ELSE "derive"

\* the pair as it would be were the cells counted from zero
ProgressZeroBased(ii, jj) ==
    <<ii * Len(reaction_indices) + jj, Len(n_file) * Len(reaction_indices)>>

\* lines 66-71: '\r{:d} / {:d}'.format(i*len(reaction_indices)+j+1,
\* len(n_file)*len(reaction_indices)), as the pair (completed, total)
Progress(ii, jj) ==
    <<ii * Len(reaction_indices) + jj + 1, Len(n_file) * Len(reaction_indices)>>

\* lines 42-51: the array of metrics is made and the loops entered
CalcStart ==
    /\ pc = "calc"
    /\ signaling_metric' = FullNaN(n_file, reaction_indices, obs, conditions)
    /\ i' = 0
    /\ j' = 0
    /\ pc' = AfterBaseline(0)
    /\ UNCHANGED <<metric, style, cmap, perturbation, simulations, sensitivity_coefficients,
                   files, raised, stdout, calls>>
    /\ UNCHANGED notAnalyze

\* lines 52-71, one cell: the perturbed run of reaction j for parameter set i,
\* the metrics it yields, and the progress written to stdout
Perturbed ==
    /\ pc = "perturbed"
    /\ \E ok \in BOOLEAN :
        LET x == load_param(n_file[i + 1])
            rxn_idx == reaction_indices[j + 1]
            p == BuildPerturbation(perturbation, reaction_indices, rxn_idx)
        IN  /\ perturbation' = p
            /\ calls' = Append(calls, [i |-> i, slot |-> j, perturbation |-> p, ok |-> ok])
            /\ simulations' = IF ok THEN SimResult(x, p) ELSE simulations
            /\ IF ok /\ MetricRaises(metric)
               THEN /\ raised' = "ValueError: metric"
                    /\ pc' = "raised"
                    /\ UNCHANGED <<signaling_metric, stdout, j>>
               ELSE /\ signaling_metric' =
                        IF ok THEN StoreMetrics(signaling_metric, i, j, metric,
                                                SimResult(x, p), reaction_indices)
                        ELSE signaling_metric
                    /\ stdout' = Append(stdout, Progress(i, j))
                    /\ j' = j + 1
                    /\ pc' = AfterPerturbed(j + 1)
                    /\ UNCHANGED raised
    /\ UNCHANGED <<metric, style, cmap, i, sensitivity_coefficients, files>>
    /\ UNCHANGED notAnalyze

\* lines 72-78: the unperturbed run of parameter set i
Baseline ==
    /\ pc = "baseline"
    /\ \E ok \in BOOLEAN :
        LET x == load_param(n_file[i + 1])
        IN  /\ calls' = Append(calls, [i |-> i, slot |-> Len(reaction_indices),
                                       perturbation |-> <<>>, ok |-> ok])
            /\ simulations' = IF ok THEN SimResult(x, <<>>) ELSE simulations
            /\ IF ok /\ MetricRaises(metric)
               THEN /\ raised' = "ValueError: metric"
                    /\ pc' = "raised"
                    /\ UNCHANGED <<signaling_metric, i, j>>
               ELSE /\ signaling_metric' =
                        IF ok THEN StoreMetrics(signaling_metric, i, BaselineSlot, metric,
                                                SimResult(x, <<>>), reaction_indices)
                        ELSE signaling_metric
                    /\ i' = i + 1
                    /\ j' = 0
                    /\ pc' = AfterBaseline(i + 1)
                    /\ UNCHANGED raised
    /\ UNCHANGED <<metric, style, cmap, perturbation, sensitivity_coefficients, files, stdout>>
    /\ UNCHANGED notAnalyze

\* lines 79-84
Derive ==
    /\ pc = "derive"
    /\ sensitivity_coefficients' =
            dlnyi_dlnxj(signaling_metric, n_file, reaction_indices, obs, conditions, rate)
    /\ pc' = "save"
    /\ UNCHANGED <<metric, style, cmap, i, j, perturbation, simulations, signaling_metric,
                   files, raised, stdout, calls>>
    /\ UNCHANGED notAnalyze

\* the whole sweep as a function of the set of <<i, slot>> whose run succeeds
SweepResult(m, succeeded) ==
    [c \in (0..(Len(n_file) - 1)) \X (0..Len(reaction_indices))
            \X (0..(Len(obs) - 1)) \X (0..(Len(conditions) - 1)) |->
        IF <<c[1], c[2]>> \in succeeded
        THEN get_signaling_metric(m,
                SimTrace(load_param(n_file[c[1] + 1]),
                         IF c[2] < Len(reaction_indices)
                         THEN [idx \in {reaction_indices[n] : n \in DOMAIN reaction_indices} |->
                                  IF idx = reaction_indices[c[2] + 1] THEN rate ELSE Num(1)]
                         ELSE <<>>,
                         c[3], c[4]))
        ELSE NaN]

\* what _calc_sensitivity_coefficients returns when it returns
CalcResult(m, succeeded) ==
    dlnyi_dlnxj(SweepResult(m, succeeded), n_file, reaction_indices, obs, conditions, rate)

\* it raises instead when a run succeeds and the metric is unknown
CalcRaises(m, succeeded) == succeeded # {} /\ MetricRaises(m)

Cells == (0..(Len(n_file) - 1)) \X (0..Len(reaction_indices))

----------------------------------------------------------------------------
(* _load_sc and analyze, one call                                          *)

\* analyze lines 289-291 and _load_sc lines 86-99 on a miss: the directories are
\* made, no file is found, and _calc_sensitivity_coefficients is called
LoadScMiss ==
    /\ pc = "analyze"
    /\ files[ScNpy(metric)].state = "absent"
    /\ pc' = "calc"
    /\ UNCHANGED <<metric, style, cmap, i, j, perturbation, simulations, signaling_metric,
                   sensitivity_coefficients, files, raised, stdout, calls>>
    /\ UNCHANGED notAnalyze

\* analyze lines 289-291 and _load_sc lines 86-93, 104-110 on a hit: np.load of
\* whatever file is there; a file that is not a whole array does not load
LoadScHit ==
    /\ pc = "analyze"
    /\ files[ScNpy(metric)].state # "absent"
    /\ IF files[ScNpy(metric)].state = "complete"
       THEN /\ sensitivity_coefficients' = files[ScNpy(metric)].data
            /\ pc' = "dispatch"
            /\ UNCHANGED raised
       ELSE /\ raised' = "ValueError: load"
            /\ pc' = "raised"
            /\ UNCHANGED sensitivity_coefficients
    /\ UNCHANGED <<metric, style, cmap, i, j, perturbation, simulations, signaling_metric,
                   files, stdout, calls>>
    /\ UNCHANGED notAnalyze

SaveOutcomes == {"saved", "not opened", "not written"}

\* _load_sc lines 100-103 and 110: np.save opens sc.npy for writing and writes the
\* array; either may fail with an OSError, which _load_sc does not catch
Save ==
    /\ pc = "save"
    /\ \E outcome \in SaveOutcomes :
        /\ files' = [files EXCEPT ![NpSavePath(ScArg(metric))] =
                        IF outcome = "saved" THEN Complete(sensitivity_coefficients)
                        ELSE IF outcome = "not written" THEN Partial
                        ELSE @]
        /\ pc' = IF outcome = "saved" THEN "dispatch" ELSE "raised"
        /\ raised' = IF outcome = "saved" THEN raised ELSE "OSError: save"
    /\ UNCHANGED <<metric, style, cmap, i, j, perturbation, simulations, signaling_metric,
                   sensitivity_coefficients, stdout, calls>>
    /\ UNCHANGED notAnalyze

\* analyze lines 293-304 with the check that opens _barplot_sensitivity, lines 162-166
Dispatch ==
    /\ pc = "dispatch"
    /\ IF style = "barplot" /\ cmap < Len(conditions)
       THEN raised' = "ValueError: cmap" /\ pc' = "raised"
       ELSE IF style \notin Styles
       THEN raised' = "ValueError: style" /\ pc' = "raised"
       ELSE pc' = "plot" /\ UNCHANGED raised
    /\ UNCHANGED <<metric, style, cmap, i, j, perturbation, simulations, signaling_metric,
                   sensitivity_coefficients, files, stdout, calls>>
    /\ UNCHANGED notAnalyze

Procs == 1..NProcs

\* no call of _remove_nan
CleanIdle ==
    /\ rn_pc = "off"
    /\ sensitivity_matrix = <<>>
    /\ normalize = FALSE
    /\ nan_idx = <<>>
    /\ rn_i = 0
    /\ rn_ret = <<>>
    /\ rn_arg = <<>>

\* no bar plot
BarIdle ==
    /\ bar_pc = "off"
    /\ sensitivity_array = <<>>
    /\ bar_arg = <<>>
    /\ average = <<>>
    /\ stdev = <<>>

\* no heat map
HeatIdle ==
    /\ heat_pc = "off"
    /\ heat_sc = <<>>
    /\ heat_k = 0
    /\ heat_l = 0
    /\ heat_arg = <<>>
    /\ heat_drawn = <<>>

\* no caller of _load_sc besides the analyze call
CacheIdle ==
    /\ cpc = [p \in Procs |-> "off"]
    /\ cmetric = [p \in Procs |-> ""]
    /\ csc = [p \in Procs |-> <<>>]
    /\ cret = [p \in Procs |-> <<>>]
    /\ cerr = [p \in Procs |-> ""]
    /\ ncalls = [p \in Procs |-> 0]
    /\ computed = [p \in Procs |-> FALSE]
    /\ before = [p \in Procs |-> <<>>]
    /\ returned = [m \in MetricInputs |-> <<>>]
    /\ computes = [m \in MetricInputs |-> 0]
    /\ seen = [p \in Procs |-> ""]

\* len(viz.sensitivity_options['cmap']): one colour short, or enough
CmapLengths == {n \in {Len(conditions) - 1, Len(conditions)} : n >= 0}

\* the arrays a cache directory may hold from an earlier call
Cached(m) == {CalcResult(m, IF m \in Metrics THEN Cells ELSE {}), CalcResult(m, {})}

Init ==
    /\ pc = "analyze"
    /\ metric \in MetricInputs
    /\ style \in StyleInputs
    /\ cmap \in IF style = "barplot" THEN CmapLengths ELSE {Len(conditions)}
    /\ i = 0
    /\ j = 0
    /\ perturbation = <<>>
    /\ simulations = <<>>
    /\ signaling_metric = <<>>
    /\ sensitivity_coefficients = <<>>
    /\ files \in {[f0 \in Paths |-> IF f0 = ScNpy(metric) THEN f ELSE Absent] :
                    f \in {Absent, Partial} \cup {Complete(a) : a \in Cached(metric)}}
    /\ raised = ""
    /\ stdout = <<>>
    /\ calls = <<>>
    /\ CacheIdle
    /\ CleanIdle
    /\ BarIdle
    /\ HeatIdle

Next ==
    \/ LoadScMiss
    \/ LoadScHit
    \/ CalcStart
    \/ Perturbed
    \/ Baseline
    \/ Derive
    \/ Save
    \/ Dispatch

Spec == Init /\ [][Next]_vars

\* analyze called with one of the three metrics
InitKnownMetric == Init /\ metric \in Metrics

SpecKnownMetric == InitKnownMetric /\ [][Next]_vars

\* _calc_sensitivity_coefficients(metric, reaction_indices) called on its own
InitSweep ==
    /\ pc = "calc"
    /\ metric \in MetricInputs
    /\ style = ""
    /\ cmap = 0
    /\ i = 0
    /\ j = 0
    /\ perturbation = <<>>
    /\ simulations = <<>>
    /\ signaling_metric = <<>>
    /\ sensitivity_coefficients = <<>>
    /\ files = [f \in Paths |-> Absent]
    /\ raised = ""
    /\ stdout = <<>>
    /\ calls = <<>>
    /\ CacheIdle
    /\ CleanIdle
    /\ BarIdle
    /\ HeatIdle

NextSweep ==
    \/ CalcStart
    \/ Perturbed
    \/ Baseline
    \/ Derive

SpecSweep == InitSweep /\ [][NextSweep]_vars

----------------------------------------------------------------------------
(* _load_sc called again and again, by one caller or by several at once    *)

\* the metrics the callers ask for
CallMetrics == {"amplitude", "slope"}

\* line 86-90: a call starts; the figure directory is made
Call(p) ==
    /\ cpc[p] = "idle"
    /\ ncalls[p] < MaxCalls
    /\ \E m \in CallMetrics :
        /\ cmetric' = [cmetric EXCEPT ![p] = m]
        /\ before' = [before EXCEPT ![p] = returned[m]]
    /\ cpc' = [cpc EXCEPT ![p] = "isfile"]
    /\ ncalls' = [ncalls EXCEPT ![p] = @ + 1]
    /\ csc' = [csc EXCEPT ![p] = <<>>]
    /\ cret' = [cret EXCEPT ![p] = <<>>]
    /\ cerr' = [cerr EXCEPT ![p] = ""]
    /\ computed' = [computed EXCEPT ![p] = FALSE]
    /\ seen' = [seen EXCEPT ![p] = ""]
    /\ UNCHANGED <<returned, computes, files, notCache>>

\* lines 91-93: os.path.isfile
IsFile(p) ==
    /\ cpc[p] = "isfile"
    /\ cpc' = [cpc EXCEPT ![p] =
                IF files[ScNpy(cmetric[p])].state = "absent" THEN "compute" ELSE "load"]
    /\ UNCHANGED <<cmetric, csc, cret, cerr, ncalls, computed, before, returned, computes,
                   seen, files, notCache>>

\* lines 94-99: the directory is made and the sweep run; the runs of some
\* parameter sets fail
Compute(p) ==
    /\ cpc[p] = "compute"
    /\ \E failed \in SUBSET (0..(Len(n_file) - 1)) :
        LET succeeded == {c \in Cells : c[1] \notin failed}
        IN  IF CalcRaises(cmetric[p], succeeded)
            THEN /\ cerr' = [cerr EXCEPT ![p] = "ValueError: metric"]
                 /\ cpc' = [cpc EXCEPT ![p] = "idle"]
                 /\ UNCHANGED csc
            ELSE /\ csc' = [csc EXCEPT ![p] = CalcResult(cmetric[p], succeeded)]
                 /\ cpc' = [cpc EXCEPT ![p] = "open"]
                 /\ UNCHANGED cerr
    /\ computed' = [computed EXCEPT ![p] = TRUE]
    /\ computes' = [computes EXCEPT ![cmetric[p]] = @ + 1]
    /\ UNCHANGED <<cmetric, cret, ncalls, before, returned, seen, files, notCache>>

\* lines 100-103, first half: np.save opens the file for writing, which empties it
SaveOpen(p) ==
    /\ cpc[p] = "open"
    /\ \E ok \in BOOLEAN :
        IF ok
        THEN /\ files' = [files EXCEPT ![NpSavePath(ScArg(cmetric[p]))] = Partial]
             /\ cpc' = [cpc EXCEPT ![p] = "write"]
             /\ UNCHANGED cerr
        ELSE /\ cerr' = [cerr EXCEPT ![p] = "OSError: save"]
             /\ cpc' = [cpc EXCEPT ![p] = "idle"]
             /\ UNCHANGED files
    /\ UNCHANGED <<cmetric, csc, cret, ncalls, computed, before, returned, computes, seen,
                   notCache>>

\* the callers that have the file of p open for writing besides p
OtherWriters(p) ==
    {q \in Procs \ {p} : cpc[q] = "write" /\ cmetric[q] = cmetric[p]}

\* lines 100-103, second half: the array is written and the file closed; the
\* file is whole once no writer is left
SaveWrite(p) ==
    /\ cpc[p] = "write"
    /\ \E ok \in BOOLEAN :
        IF ok
        THEN /\ files' = [files EXCEPT ![NpSavePath(ScArg(cmetric[p]))] =
                            IF OtherWriters(p) = {} THEN Complete(csc[p]) ELSE Partial]
             /\ cpc' = [cpc EXCEPT ![p] = "return"]
             /\ UNCHANGED cerr
        ELSE /\ cerr' = [cerr EXCEPT ![p] = "OSError: save"]
             /\ cpc' = [cpc EXCEPT ![p] = "idle"]
             /\ UNCHANGED files
    /\ UNCHANGED <<cmetric, csc, cret, ncalls, computed, before, returned, computes, seen,
                   notCache>>

\* lines 104-108: np.load of the file isfile found
Load(p) ==
    /\ cpc[p] = "load"
    /\ seen' = [seen EXCEPT ![p] = files[ScNpy(cmetric[p])].state]
    /\ IF files[ScNpy(cmetric[p])].state = "complete"
       THEN /\ csc' = [csc EXCEPT ![p] = files[ScNpy(cmetric[p])].data]
            /\ cpc' = [cpc EXCEPT ![p] = "return"]
            /\ UNCHANGED cerr
       ELSE /\ cerr' = [cerr EXCEPT ![p] = "ValueError: load"]
            /\ cpc' = [cpc EXCEPT ![p] = "idle"]
            /\ UNCHANGED csc
    /\ UNCHANGED <<cmetric, cret, ncalls, computed, before, returned, computes, files,
                   notCache>>

\* line 110
Return(p) ==
    /\ cpc[p] = "return"
    /\ cret' = [cret EXCEPT ![p] = csc[p]]
    /\ returned' = [returned EXCEPT ![cmetric[p]] = csc[p]]
    /\ cpc' = [cpc EXCEPT ![p] = "idle"]
    /\ UNCHANGED <<cmetric, csc, cerr, ncalls, computed, before, computes, seen, files,
                   notCache>>

\* no analyze call under way
AnalyzeIdle ==
    /\ pc = "off"
    /\ metric = ""
    /\ style = ""
    /\ cmap = 0
    /\ i = 0
    /\ j = 0
    /\ perturbation = <<>>
    /\ simulations = <<>>
    /\ signaling_metric = <<>>
    /\ sensitivity_coefficients = <<>>
    /\ raised = ""
    /\ stdout = <<>>
    /\ calls = <<>>

InitCache ==
    /\ AnalyzeIdle
    /\ CleanIdle
    /\ BarIdle
    /\ HeatIdle
    /\ cpc = [p \in Procs |-> "idle"]
    /\ cmetric = [p \in Procs |-> ""]
    /\ csc = [p \in Procs |-> <<>>]
    /\ cret = [p \in Procs |-> <<>>]
    /\ cerr = [p \in Procs |-> ""]
    /\ ncalls = [p \in Procs |-> 0]
    /\ computed = [p \in Procs |-> FALSE]
    /\ before = [p \in Procs |-> <<>>]
    /\ returned = [m \in MetricInputs |-> <<>>]
    /\ computes = [m \in MetricInputs |-> 0]
    /\ seen = [p \in Procs |-> ""]
    /\ files \in {[f \in Paths |-> Absent],
                  [f \in Paths |-> IF f = ScNpy("amplitude")
                                   THEN Complete(CalcResult("amplitude", Cells)) ELSE Absent]}

\* one caller, one call after the other
NextSeq ==
    \/ Call(1)
    \/ IsFile(1)
    \/ Compute(1)
    \/ SaveOpen(1)
    \/ SaveWrite(1)
    \/ Load(1)
    \/ Return(1)

SpecSeq == InitCache /\ [][NextSeq]_vars

\* several callers at once
NextConc ==
    \E p \in Procs :
        \/ Call(p)
        \/ IsFile(p)
        \/ Compute(p)
        \/ SaveOpen(p)
        \/ SaveWrite(p)
        \/ Load(p)
        \/ Return(p)

SpecConc == InitCache /\ [][NextConc]_vars

----------------------------------------------------------------------------
(* _remove_nan                                                             *)

\* the values of a sensitivity matrix
CoefVals == {NaN, Zero, Num(2), Num(-4)}

\* a.shape[0] and a.shape[1] of a two-dimensional array
Shape0(a) == Cardinality({c[1] : c \in DOMAIN a})

Shape1(a) == Cardinality({c[2] : c \in DOMAIN a})

\* a[r, :]
Row(a, r) == [c \in 0..(Shape1(a) - 1) |-> a[<<r, c>>]]

\* all(np.isnan(row))
AllNaN(row) == \A c \in DOMAIN row : IsNaN(row[c])

\* line 226: any(np.isnan(row))
AnyNaN(row) == \E c \in DOMAIN row : IsNaN(row[c])

\* the largest of a non-empty set of finite values
FMax(S) == CHOOSE m \in S : \A v \in S : ~FLess(m, v)

\* np.nanmax(row): the largest value, whatever its sign
NanMax(row) ==
    LET finite == {row[c] : c \in {d \in DOMAIN row : ~IsNaN(row[d])}}
    IN  IF finite = {} THEN NaN ELSE FMax(finite)

\* lines 230, 236-238: np.nanmax(np.abs(row)), NaN for a row of NaN alone
NanMaxAbs(row) ==
    LET finite == {FAbs(row[c]) : c \in {d \in DOMAIN row : ~IsNaN(row[d])}}
    IN  IF finite = {} THEN NaN ELSE FMax(finite)

\* the elements of a set of integers in ascending order
RECURSIVE Ascending(_)
Ascending(S) ==
    IF S = {} THEN <<>>
    ELSE LET least == CHOOSE n \in S : \A q \in S : n <= q
         IN  <<least>> \o Ascending(S \ {least})

\* np.delete(a, idx, axis=0) for a list idx of row numbers
NpDeleteRows(a, idx) ==
    LET kept == Ascending({r \in 0..(Shape0(a) - 1) : \A n \in DOMAIN idx : idx[n] # r})
    IN  [c \in (0..(Len(kept) - 1)) \X (0..(Shape1(a) - 1)) |-> a[<<kept[c[1] + 1], c[2]>>]]

\* lines 225-239, one row
RemoveNanRow ==
    /\ rn_pc = "loop"
    /\ LET row == Row(sensitivity_matrix, rn_i)
           largest == NanMaxAbs(row)
       IN  /\ nan_idx' = IF AnyNaN(row) THEN Append(nan_idx, rn_i) ELSE nan_idx
           /\ sensitivity_matrix' =
                [c \in DOMAIN sensitivity_matrix |->
                    IF c[1] # rn_i THEN sensitivity_matrix[c]
                    ELSE IF largest = Zero THEN Zero
                    ELSE FDiv(row[c[2]], IF normalize THEN largest ELSE Num(1))]
    /\ rn_i' = rn_i + 1
    /\ rn_pc' = IF rn_i + 1 < Shape0(sensitivity_matrix) THEN "loop" ELSE "delete"
    /\ UNCHANGED <<normalize, rn_ret, rn_arg, notClean>>

\* line 241
RemoveNanReturn ==
    /\ rn_pc = "delete"
    /\ rn_ret' = NpDeleteRows(sensitivity_matrix, nan_idx)
    /\ rn_pc' = "done"
    /\ UNCHANGED <<sensitivity_matrix, normalize, nan_idx, rn_i, rn_arg, notClean>>

InitClean ==
    /\ AnalyzeIdle
    /\ CacheIdle
    /\ BarIdle
    /\ HeatIdle
    /\ files = [f \in Paths |-> Absent]
    /\ rn_pc = "loop"
    /\ sensitivity_matrix \in [(0..(NRows - 1)) \X (0..(NCols - 1)) -> CoefVals]
    /\ normalize \in BOOLEAN
    /\ nan_idx = <<>>
    /\ rn_i = 0
    /\ rn_ret = <<>>
    /\ rn_arg = sensitivity_matrix

NextClean ==
    \/ RemoveNanRow
    \/ RemoveNanReturn

SpecClean == InitClean /\ [][NextClean]_vars

----------------------------------------------------------------------------
(* _barplot_sensitivity, the statistics of one observable                  *)

RECURSIVE FSum(_)
FSum(vs) == IF vs = <<>> THEN Zero ELSE FAdd(Head(vs), FSum(Tail(vs)))

\* a.shape[0] of a three-dimensional array
Sets(a) == Cardinality({c[1] : c \in DOMAIN a})

\* a[:, j, l]
Column(a, jl) == [n \in 1..Sets(a) |-> a[<<n - 1, jl[1], jl[2]>>]]

\* np.mean(a, axis=0)
NpMean(a) ==
    [jl \in {<<c[2], c[3]>> : c \in DOMAIN a} |->
        FDiv(FSum(Column(a, jl)), Num(Sets(a)))]

\* the square root, kept symbolic unless it is that of 0
FSqrt(v) ==
    IF v.kind # "num" THEN NaN
    ELSE IF v.num = 0 THEN Zero
    ELSE [kind |-> "sqrt", num |-> v.num, den |-> v.den]

\* np.std(a, axis=0, ddof=1): with one row the divisor is 0 and the result NaN
NpStd(a) ==
    [jl \in {<<c[2], c[3]>> : c \in DOMAIN a} |->
        LET col == Column(a, jl)
            mean == FDiv(FSum(col), Num(Sets(a)))
            squares == [n \in DOMAIN col |-> FMul(FSub(col[n], mean), FSub(col[n], mean))]
        IN  FSqrt(FDiv(FSum(squares), Num(Sets(a) - 1)))]

\* the standard deviation without the case of a single row
StdevWithoutSingleCase(a) == NpStd(a)

\* lines 183-188
StdevOf(a) ==
    IF Sets(a) = 1
    THEN [jl \in {<<c[2], c[3]>> : c \in DOMAIN a} |-> Zero]
    ELSE NpStd(a)

\* lines 173-177: i is appended once for every reaction j with a NaN in a[i, j, :]
NanIdxOf(a) ==
    LET reactions == Cardinality({c[2] : c \in DOMAIN a})
        cells == [n \in 1..(Sets(a) * reactions) |->
                    <<(n - 1) \div reactions, (n - 1) % reactions>>]
        hit(ij) == \E c \in DOMAIN a : c[1] = ij[1] /\ c[2] = ij[2] /\ IsNaN(a[c])
        hits == SelectSeq(cells, hit)
    IN  [n \in DOMAIN hits |-> hits[n][1]]

\* np.delete(a, idx, axis=0) of a three-dimensional array
NpDeleteSets(a, idx) ==
    LET kept == Ascending({r \in 0..(Sets(a) - 1) : \A n \in DOMAIN idx : idx[n] # r})
    IN  [c \in (0..(Len(kept) - 1)) \X {c[2] : c \in DOMAIN a} \X {c[3] : c \in DOMAIN a} |->
            a[<<kept[c[1] + 1], c[2], c[3]>>]]

\* lines 171-180
BarRemoveNan ==
    /\ bar_pc = "clean"
    /\ sensitivity_array' = NpDeleteSets(sensitivity_array, NanIdxOf(sensitivity_array))
    /\ bar_pc' = "stats"
    /\ UNCHANGED <<bar_arg, average, stdev, notBar>>

\* lines 181-188; nothing is computed or drawn for an array without elements
BarStats ==
    /\ bar_pc = "stats"
    /\ average' = IF DOMAIN sensitivity_array # {} THEN NpMean(sensitivity_array) ELSE average
    /\ stdev' = IF DOMAIN sensitivity_array # {} THEN StdevOf(sensitivity_array) ELSE stdev
    /\ bar_pc' = "done"
    /\ UNCHANGED <<sensitivity_array, bar_arg, notBar>>

\* the coefficients of one parameter set for one observable, [reaction, condition]:
\* finite throughout, or with one NaN, or NaN throughout
SetBlocks ==
    LET at == (0..(NReactions - 1)) \X (0..(NCond - 1))
        finite(a) == [jl \in at |-> Num(a * (jl[1] + 1) - 2 * jl[2])]
    IN  {finite(a) : a \in 1..3}
        \cup {[finite(1) EXCEPT ![hole] = NaN] : hole \in at}
        \cup {[jl \in at |-> NaN]}

InitBar ==
    /\ AnalyzeIdle
    /\ CacheIdle
    /\ CleanIdle
    /\ HeatIdle
    /\ files = [f \in Paths |-> Absent]
    /\ bar_pc = "clean"
    /\ \E blocks \in [0..(NParamSets - 1) -> SetBlocks] :
            sensitivity_array =
                [c \in (0..(NParamSets - 1)) \X (0..(NReactions - 1)) \X (0..(NCond - 1)) |->
                    blocks[c[1]][<<c[2], c[3]>>]]
    /\ bar_arg = sensitivity_array
    /\ average = <<>>
    /\ stdev = <<>>

NextBar ==
    \/ BarRemoveNan
    \/ BarStats

SpecBar == InitBar /\ [][NextBar]_vars

----------------------------------------------------------------------------
(* _heatmap_sensitivity, the loops over the slices                         *)

\* the cells <<i, j>> of parameter sets and reactions
HeatCells == (0..(NParamSets - 1)) \X (0..(NReactions - 1))

\* the arrays handed over: NaN where the run of a cell failed, 0 where the
\* reaction leaves the observable as it was, another finite value elsewhere
HeatTensor(failed, insensitive) ==
    [c \in (0..(NParamSets - 1)) \X (0..(NReactions - 1))
            \X (0..(NObs - 1)) \X (0..(NCond - 1)) |->
        IF <<c[1], c[2]>> \in failed THEN NaN
        ELSE IF <<c[2], c[3]>> \in insensitive THEN Zero
        ELSE Num(2)]

\* a[:, :, k, l]
Slice(a, k, l) == [c \in HeatCells |-> a[<<c[1], c[2], k, l>>]]

\* a after  a[:, :, k, l] = m
WithSlice(a, k, l, m) ==
    [c \in DOMAIN a |-> IF c[3] = k /\ c[4] = l THEN m[<<c[1], c[2]>>] ELSE a[c]]

\* the array the caller holds: the slice of line 262 is a view, so while it is
\* out what is assigned to sensitivity_matrix is assigned to the array
CallerTensor ==
    IF heat_pc = "call" THEN WithSlice(heat_sc, heat_k, heat_l, sensitivity_matrix)
    ELSE heat_sc

\* np.all(a == 0.0)
AllZero(a) == \A c \in DOMAIN a : a[c] = Zero

\* where the loops stand with kk observables done
AfterSlice(kk) == IF kk < Len(obs) /\ Len(conditions) > 0 THEN "slice" ELSE "done"

\* lines 259-264: the slice of observable k and condition l is taken and
\* _remove_nan entered with it and normalize=False
HeatSlice ==
    /\ heat_pc = "slice"
    /\ heat_pc' = "call"
    /\ rn_pc' = IF NParamSets > 0 THEN "loop" ELSE "delete"
    /\ sensitivity_matrix' = Slice(heat_sc, heat_k, heat_l)
    /\ rn_arg' = Slice(heat_sc, heat_k, heat_l)
    /\ normalize' = FALSE
    /\ nan_idx' = <<>>
    /\ rn_i' = 0
    /\ rn_ret' = <<>>
    /\ UNCHANGED <<heat_sc, heat_k, heat_l, heat_arg, heat_drawn>>
    /\ UNCHANGED <<analyzeVars, cacheVars, barVars, files>>

\* lines 265-286: _remove_nan has returned; the clustermap is drawn or not,
\* and the loops go on to the next slice
HeatDraw ==
    /\ heat_pc = "call"
    /\ rn_pc = "done"
    /\ heat_drawn' = Append(heat_drawn,
            [k |-> heat_k, l |-> heat_l,
             drawn |-> Shape0(rn_ret) > 1 /\ ~AllZero(rn_ret)])
    /\ heat_sc' = WithSlice(heat_sc, heat_k, heat_l, sensitivity_matrix)
    /\ heat_l' = IF heat_l + 1 < Len(conditions) THEN heat_l + 1 ELSE 0
    /\ heat_k' = IF heat_l + 1 < Len(conditions) THEN heat_k ELSE heat_k + 1
    /\ heat_pc' = IF heat_l + 1 < Len(conditions) THEN "slice" ELSE AfterSlice(heat_k + 1)
    /\ rn_pc' = "off"
    /\ UNCHANGED <<sensitivity_matrix, normalize, nan_idx, rn_i, rn_ret, rn_arg, heat_arg>>
    /\ UNCHANGED <<analyzeVars, cacheVars, barVars, files>>

InitHeat ==
    /\ AnalyzeIdle
    /\ CacheIdle
    /\ CleanIdle
    /\ BarIdle
    /\ files = [f \in Paths |-> Absent]
    /\ \E failed \in SUBSET HeatCells :
       \E insensitive \in SUBSET ((0..(NReactions - 1)) \X (0..(NObs - 1))) :
           heat_sc = HeatTensor(failed, insensitive)
    /\ heat_arg = heat_sc
    /\ heat_k = 0
    /\ heat_l = 0
    /\ heat_pc = AfterSlice(0)
    /\ heat_drawn = <<>>

NextHeat ==
    \/ HeatSlice
    \/ RemoveNanRow
    \/ RemoveNanReturn
    \/ HeatDraw

SpecHeat == InitHeat /\ [][NextHeat]_vars

----------------------------------------------------------------------------
(* Properties of the sweep                                                 *)

\* the <<i, slot>> of the runs that succeeded so far
Succeeded == {<<calls[n].i, calls[n].slot>> : n \in {q \in DOMAIN calls : calls[q].ok}}

Visited == {<<calls[n].i, calls[n].slot>> : n \in DOMAIN calls}

InSweep == pc \in {"perturbed", "baseline"}

\* the sweep of this call ran to its end
SweepDone == DOMAIN signaling_metric # {} /\ ~InSweep /\ raised # "ValueError: metric"

ObsCond == (0..(NObs - 1)) \X (0..(NCond - 1))

\* the sweep and its functional form agree on what is returned
CalcAgreesWithSweep ==
    (SweepDone /\ pc # "derive") =>
        sensitivity_coefficients = CalcResult(metric, IF metric \in Metrics THEN Succeeded ELSE {})

\* C4: a failed run, perturbed or baseline, leaves NaN at [i, slot, k, l] for every
\* observable k and condition l; a failed run never ends the sweep (only the
\* metric lookup after a successful run can); and a sweep that ended has made
\* every perturbed run and every baseline run, once each, and holds an array of
\* shape [parameter sets, reactions + 1, observables, conditions].
C4_FailedRunLeavesNaN ==
    /\ \A n \in DOMAIN calls :
            ~calls[n].ok =>
                \A kl \in ObsCond :
                    signaling_metric[<<calls[n].i, calls[n].slot, kl[1], kl[2]>>] = NaN
    /\ raised = "ValueError: metric" => calls[Len(calls)].ok
    /\ (InSweep /\ calls # <<>> /\ ~calls[Len(calls)].ok) => raised = ""
    /\ SweepDone =>
            /\ Visited = (0..(NParamSets - 1)) \X (0..NReactions)
            /\ Len(calls) = NParamSets * (NReactions + 1)
            /\ DOMAIN signaling_metric =
                    (0..(NParamSets - 1)) \X (0..NReactions) \X (0..(NObs - 1)) \X (0..(NCond - 1))

\* a sweep ended in which a perturbed run and a baseline run failed and another succeeded
C4_Witness ==
    /\ SweepDone
    /\ \E n \in DOMAIN calls : ~calls[n].ok /\ calls[n].slot < NReactions
    /\ \E n \in DOMAIN calls : ~calls[n].ok /\ calls[n].slot = NReactions
    /\ \E n \in DOMAIN calls : calls[n].ok /\ n < Len(calls)

\* C5: for every parameter set i the last slot of the reaction axis, index
\* len(reaction_indices), holds the metrics of the unperturbed run of i, or NaN when
\* that run failed or is yet to be made; every other slot j holds the metrics of
\* the run that perturbed reaction j, or NaN: no run writes into another's slot.
C5_BaselineInLastSlot ==
    DOMAIN signaling_metric # {} =>
        /\ \A n \in DOMAIN calls :
                /\ calls[n].i = (n - 1) \div (NReactions + 1)
                /\ calls[n].slot = (n - 1) % (NReactions + 1)
        /\ \A c \in (0..(NParamSets - 1)) \X (0..NReactions) \X (0..(NObs - 1)) \X (0..(NCond - 1)) :
            LET run == c[1] * (NReactions + 1) + c[2] + 1
            IN  signaling_metric[c] =
                    IF run <= Len(calls) /\ calls[run].ok /\ metric \in Metrics
                    THEN get_signaling_metric(metric,
                            SimTrace(n_file[c[1] + 1],
                                     IF c[2] = NReactions THEN <<>> ELSE calls[run].perturbation,
                                     c[3], c[4]))
                    ELSE NaN

\* a sweep ended with the unperturbed run of one parameter set stored and that of
\* another failed, the perturbed runs of both stored
C5_Witness ==
    /\ SweepDone
    /\ metric \in Metrics
    /\ \E a, b \in 0..(NParamSets - 1) :
            /\ <<a, NReactions>> \in Succeeded
            /\ <<b, NReactions>> \notin Succeeded
            /\ \A r \in 0..(NReactions - 1) : <<a, r>> \in Succeeded /\ <<b, r>> \in Succeeded

\* C6: the map passed to simulate for the cell of reaction r has exactly the
\* keys of reaction_indices, maps r to 1.01 and every other key to 1, whatever
\* cells came before it.
C6_PerturbationIsFresh ==
    \A n \in DOMAIN calls :
        calls[n].slot < NReactions =>
            /\ DOMAIN calls[n].perturbation = {reaction_indices[q] : q \in 1..NReactions}
            /\ \A idx \in DOMAIN calls[n].perturbation :
                    calls[n].perturbation[idx] =
                        IF idx = reaction_indices[calls[n].slot + 1] THEN Rat(101, 100) ELSE Num(1)

\* the cell of the last reaction of the last parameter set has been simulated,
\* after the cells of every other reaction
C6_Witness ==
    \E n \in DOMAIN calls :
        /\ calls[n].i = NParamSets - 1
        /\ calls[n].slot = NReactions - 1
        /\ NReactions > 1
        /\ \A r \in 0..(NReactions - 2) : \E q \in 1..(n - 1) : calls[q].slot = r

ConfigurationErrors == {"ValueError: metric", "ValueError: cmap", "ValueError: style"}

\* C10: when analyze raises a configuration error (unknown metric, too short a
\* colormap list, unknown style), no simulation has been run and no cache file
\* has been written by the call.
C10_ConfigErrorBeforeWork ==
    raised \in ConfigurationErrors =>
        /\ calls = <<>>
        /\ (files[ScNpy(metric)].state = "complete" => DOMAIN signaling_metric = {})

\* the perturbed cells run so far, in the order they were run
PerturbedCalls == SelectSeq(calls, LAMBDA c : c.slot < NReactions)

\* the last perturbed cell ended the sweep with the error of an unknown metric
PerturbedCellRaised ==
    /\ raised = "ValueError: metric"
    /\ calls # <<>>
    /\ calls[Len(calls)].slot < NReactions

\* C11: in a sweep over P parameter sets and R reactions every perturbed cell
\* that was gone through, its simulation succeeded or failed, has written one
\* progress pair; the n-th pair written is (n, P*R) and belongs to the n-th
\* cell in loop order, so the count starts at 1, goes up by 1, never exceeds
\* P*R, and is P*R at the last pair of a sweep that ran to its end
C11_ProgressCountsEveryCell ==
    LET total == NParamSets * NReactions
        cells == PerturbedCalls
    IN  /\ Len(stdout) = IF PerturbedCellRaised THEN Len(cells) - 1 ELSE Len(cells)
        /\ \A n \in DOMAIN stdout :
              /\ stdout[n] = <<n, total>>
              /\ n <= total
              /\ cells[n].i * NReactions + cells[n].slot + 1 = n
        /\ SweepDone =>
              /\ Len(stdout) = total
              /\ total > 0 => stdout[Len(stdout)] = <<total, total>>

\* a sweep ran to its end with a failed and a successful perturbed run in it
C11_Witness ==
    /\ SweepDone
    /\ Len(stdout) = NParamSets * NReactions
    /\ \E n \in DOMAIN calls : calls[n].slot < NReactions /\ ~calls[n].ok
    /\ \E n \in DOMAIN calls : calls[n].slot < NReactions /\ calls[n].ok

----------------------------------------------------------------------------
(* Properties of the cache                                                 *)

\* C1: a call of _load_sc that follows a call of the same metric that returned
\* does not run the computation and returns an array equal to the one that
\* call returned.
C1_SecondCallLoads ==
    \A p \in Procs :
        (cpc[p] = "idle" /\ ncalls[p] > 0 /\ cerr[p] = "" /\ before[p] # <<>>) =>
            /\ ~computed[p]
            /\ cret[p] = before[p]

\* the second of two calls of one metric has returned, the first having computed
\* and saved the array
C1_Witness ==
    /\ cpc[1] = "idle"
    /\ ncalls[1] = 2
    /\ cerr[1] = ""
    /\ before[1] # <<>>
    /\ computes[cmetric[1]] = 1
    /\ cret[1] = files[ScNpy(cmetric[1])].data

\* C2: no np.load reads a file that is only partly written.
C2_NoPartialRead == \A p \in Procs : seen[p] # "partial"

\* C3: when np.save fails, the call raises the error and still returns the array
\* it computed.
C3_SaveFailureStillReturns ==
    \A p \in Procs :
        (cpc[p] = "idle" /\ cerr[p] = "OSError: save") => (csc[p] # <<>> /\ cret[p] = csc[p])

----------------------------------------------------------------------------
(* Properties of the cleaning                                              *)

\* the rows of the array passed to _remove_nan that hold no NaN, in order
CleanRows ==
    Ascending({r \in 0..(NRows - 1) : \A c \in 0..(NCols - 1) : rn_arg[<<r, c>>].kind # "nan"})

\* the largest absolute value of row r of the array passed in, as an integer
\* (the values passed in are integers)
ArgMaxAbs(r) ==
    CHOOSE m \in {Abs(rn_arg[<<r, c>>].num) : c \in 0..(NCols - 1)} :
        \A c \in 0..(NCols - 1) : Abs(rn_arg[<<r, c>>].num) <= m

\* C7: _remove_nan returns the rows without NaN and no others, in their
\* order: as they were passed in when normalize is false, and each a multiple
\* of the row passed in when it is true.
C7_KeepsExactlyCleanRows ==
    rn_pc = "done" =>
        /\ DOMAIN rn_ret = (0..(Len(CleanRows) - 1)) \X (0..(NCols - 1))
        /\ \A c \in DOMAIN rn_ret :
            LET r == CleanRows[c[1] + 1]
                scale == IF normalize /\ ArgMaxAbs(r) # 0 THEN ArgMaxAbs(r) ELSE 1
            IN  /\ rn_ret[c].kind = "num"
                /\ rn_ret[c].num * scale = rn_arg[<<r, c[2]>>].num * rn_ret[c].den

\* the first row is dropped for its NaN and the second, which has a value other
\* than 0, is returned as the first
C7_Witness ==
    /\ rn_pc = "done"
    /\ ~normalize
    /\ NRows > 1
    /\ CleanRows = <<1>>
    /\ \E c \in 0..(NCols - 1) : rn_ret[<<0, c>>] # Zero

\* C8: with normalize true every row returned is the row passed in divided by
\* its largest absolute value, so that <<2, -4>> comes back as <<1/2, -1>>; a row of
\* zeros alone comes back as zeros; no row returned holds a NaN.
C8_NormalizesByMaxAbs ==
    (rn_pc = "done" /\ normalize) =>
        \A n \in 0..(Len(CleanRows) - 1) :
            LET r == CleanRows[n + 1]
            IN  /\ \A c \in 0..(NCols - 1) :
                    /\ rn_ret[<<n, c>>].kind = "num"
                    /\ rn_ret[<<n, c>>] =
                        IF ArgMaxAbs(r) = 0 THEN Num(0)
                        ELSE Rat(rn_arg[<<r, c>>].num, ArgMaxAbs(r))
                /\ (rn_arg[<<r, 0>>] = Num(2) /\ rn_arg[<<r, 1>>] = Num(-4) /\ NCols = 2) =>
                        (rn_ret[<<n, 0>>] = Rat(1, 2) /\ rn_ret[<<n, 1>>] = Num(-1))

\* a row <<2, -4, ..>> and a row of zeros have been normalized
C8_Witness ==
    /\ rn_pc = "done"
    /\ normalize
    /\ \E n \in 0..(Len(CleanRows) - 1) :
            /\ rn_arg[<<CleanRows[n + 1], 0>>] = Num(2)
            /\ rn_arg[<<CleanRows[n + 1], 1>>] = Num(-4)
            /\ rn_ret[<<n, 0>>] = Rat(1, 2)
    /\ \E n \in 0..(Len(CleanRows) - 1) :
            \A c \in 0..(NCols - 1) :
                rn_arg[<<CleanRows[n + 1], c>>] = Zero /\ rn_ret[<<n, c>>] = Zero

----------------------------------------------------------------------------
(* Properties of the statistics                                            *)

\* the parameter sets of the slice without a NaN for any reaction and condition
Survivors ==
    Ascending({n \in 0..(NParamSets - 1) :
        \A jl \in (0..(NReactions - 1)) \X (0..(NCond - 1)) :
            bar_arg[<<n, jl[1], jl[2]>>].kind # "nan"})

\* C9: the statistics are those of the parameter sets without a NaN for any
\* reaction and condition of the observable, every other set being left out; when
\* exactly one is left the standard deviation is 0 everywhere, not NaN, and the
\* mean is that set's row.
C9_SingleSurvivorStdevZero ==
    bar_pc = "done" =>
        /\ DOMAIN sensitivity_array =
                (0..(Len(Survivors) - 1)) \X (0..(NReactions - 1)) \X (0..(NCond - 1))
        /\ \A c \in DOMAIN sensitivity_array :
                sensitivity_array[c] = bar_arg[<<Survivors[c[1] + 1], c[2], c[3]>>]
        /\ Len(Survivors) = 1 =>
                \A jl \in (0..(NReactions - 1)) \X (0..(NCond - 1)) :
                    /\ stdev[jl] = Num(0)
                    /\ average[jl] = bar_arg[<<Survivors[1], jl[1], jl[2]>>]
        /\ Len(Survivors) > 1 =>
                \A jl \in (0..(NReactions - 1)) \X (0..(NCond - 1)) :
                    /\ stdev[jl].kind # "nan"
                    /\ average[jl].kind = "num"
                    /\ average[jl].num * Len(Survivors) =
                            average[jl].den *
                                FSum([n \in 1..Len(Survivors) |->
                                        bar_arg[<<Survivors[n], jl[1], jl[2]>>]]).num

\* the statistics of a slice of which one parameter set is left, another having
\* a NaN under the last condition only
C9_Witness ==
    /\ bar_pc = "done"
    /\ Len(Survivors) = 1
    /\ NParamSets > 1
    /\ \E n \in 0..(NParamSets - 1) :
            /\ bar_arg[<<n, 0, NCond - 1>>] = NaN
            /\ \A l \in 0..(NCond - 2) : bar_arg[<<n, 0, l>>] # NaN
    /\ \E jl \in DOMAIN average : average[jl] # Zero

----------------------------------------------------------------------------
(* Properties of the heat map                                              *)

\* C12: cleaning with normalize=False, as the heat map does, leaves the array
\* the caller holds as it was: once _remove_nan has returned, for any number
\* of the slices, every entry of the array is what it was before the first
\* call, NaN where it was NaN
C12_CallerTensorUnchanged ==
    (heat_pc \in {"slice", "done"} \/ (heat_pc = "call" /\ rn_pc = "done")) =>
        CallerTensor = heat_arg

====
